---- MODULE Spec2Model ----
(***************************************************************************)
(* A model of src/src/hand.rs of holdem-hand-evaluator: the bit-packed     *)
(* Hand accumulator (key, mask), its merge, the flush test and the index   *)
(* computations of evaluate, the category extractor and the text parser.   *)
(*                                                                         *)
(* A u64 is a tuple of four 16-bit limbs, least significant first, so      *)
(* that wrapping addition and subtraction, shifts, masks and               *)
(* leading_zeros keep their 64-bit width.                                  *)
(***************************************************************************)
EXTENDS Integers, Sequences, FiniteSets, TLC

VARIABLES
    hand,       \* the Hand being built: [key |-> u64, mask |-> u64]
    present,    \* the cards currently in `hand`
    rhs,        \* a second, independently built Hand (the right operand of +)
    rhsCards,   \* the cards currently in `rhs`
    third,      \* a third, independently built Hand
    thirdCards, \* the cards currently in `third`
    sum,        \* the last merge: operator, operands' cards and result, or NoValue
    ev,         \* the last evaluate() of `hand`: path and table index, or NoValue
    input,      \* the text handed to from_str, a sequence of characters
    parsed,     \* the Result of from_str(input), or NoValue
    code,       \* a 16-bit rank code handed to get_hand_category
    category,   \* the outcome of get_hand_category(code), or NoValue
    longSuit    \* the suit whose thirteen cards specification SpecSuit deals

vars == <<hand, present, rhs, rhsCards, third, thirdCards, sum, ev,
          input, parsed, code, category, longSuit>>

\* a variable that holds no result yet, and one that holds the result v
NoValue == [tag |-> "none"]
Some(v) == [tag |-> "some", value |-> v]
IsNone(v) == v.tag = "none"
IsSome(v) == v.tag = "some"

(***************************************************************************)
(* 64-bit words as four 16-bit limbs.                                      *)
(***************************************************************************)
LimbBits == 16
LimbBase == 65536

U64Zero == <<0, 0, 0, 0>>

\* 2^n for 0 <= n <= 16
Pow2Table ==
    <<1, 2, 4, 8, 16, 32, 64, 128, 256, 512, 1024, 2048, 4096,
      8192, 16384, 32768, 65536>>

Pow2(n) == Pow2Table[n + 1]

\* u64::wrapping_add
wrapping_add(a, b) ==
    LET s1 == a[1] + b[1]
        s2 == a[2] + b[2] + (s1 \div LimbBase)
        s3 == a[3] + b[3] + (s2 \div LimbBase)
        s4 == a[4] + b[4] + (s3 \div LimbBase)
    IN  <<s1 % LimbBase, s2 % LimbBase, s3 % LimbBase, s4 % LimbBase>>

\* u64::wrapping_sub
wrapping_sub(a, b) ==
    LET d1 == a[1] - b[1]
        d2 == a[2] - b[2] - (IF d1 < 0 THEN 1 ELSE 0)
        d3 == a[3] - b[3] - (IF d2 < 0 THEN 1 ELSE 0)
        d4 == a[4] - b[4] - (IF d3 < 0 THEN 1 ELSE 0)
    IN  <<d1 % LimbBase, d2 % LimbBase, d3 % LimbBase, d4 % LimbBase>>

\* bit i (0 = least significant) of a limb
LimbBit(x, i) == (x \div Pow2(i)) % 2

\* x & y on one limb
AndLimb(x, y) ==
    LET RECURSIVE go(_)
        go(i) == IF i = LimbBits THEN 0
                 ELSE LimbBit(x, i) * LimbBit(y, i) * Pow2(i) + go(i + 1)
    IN  IF x = 0 \/ y = 0 THEN 0 ELSE go(0)

\* the operator & on u64
BitAnd(a, b) == [i \in 1..4 |-> AndLimb(a[i], b[i])]

\* the operator << on u64 for a value below 2^16 (the shifted bits that pass
\* bit 63 are dropped, as by a shift of a u64)
ShlSmall(x, n) ==
    LET q == n \div LimbBits
        r == n % LimbBits
        lo == (x * Pow2(r)) % LimbBase
        hi == (x * Pow2(r)) \div LimbBase
    IN  [i \in 1..4 |-> IF i = q + 1 THEN lo ELSE IF i = q + 2 THEN hi ELSE 0]

\* the operator >> on u64, 0 <= n < 64
Shr(a, n) ==
    LET q == n \div LimbBits
        r == n % LimbBits
        at(i) == IF i <= 4 THEN a[i] ELSE 0
    IN  [i \in 1..4 |->
            (at(i + q) \div Pow2(r))
            + (at(i + q + 1) % Pow2(r)) * Pow2(LimbBits - r)]

\* `as u16`: the low 16 bits
AsU16(a) == a[1]

\* `as u32`: the low 32 bits, kept as two limbs
AsU32(a) == <<a[1], a[2]>>

\* leading zeros of one limb, 16 for 0
LimbLeadingZeros(x) ==
    LET RECURSIVE go(_)
        go(i) == IF i < 0 THEN LimbBits
                 ELSE IF LimbBit(x, i) = 1 THEN LimbBits - 1 - i
                 ELSE go(i - 1)
    IN  go(LimbBits - 1)

\* u64::leading_zeros
leading_zeros(a) ==
    IF a[4] # 0 THEN LimbLeadingZeros(a[4])
    ELSE IF a[3] # 0 THEN LimbBits + LimbLeadingZeros(a[3])
    ELSE IF a[2] # 0 THEN 2 * LimbBits + LimbLeadingZeros(a[2])
    ELSE 3 * LimbBits + LimbLeadingZeros(a[1])

\* u64::count_ones
count_ones(a) ==
    LET RECURSIVE ones(_, _)
        ones(x, i) == IF i = LimbBits THEN 0 ELSE LimbBit(x, i) + ones(x, i + 1)
    IN  ones(a[1], 0) + ones(a[2], 0) + ones(a[3], 0) + ones(a[4], 0)

(***************************************************************************)
(* The card encoding table and the constants of the assets crate.          *)
(***************************************************************************)
NUMBER_OF_CARDS == 52
NUMBER_OF_RANKS == 13
NUMBER_OF_SUITS == 4

Cards == 0 .. NUMBER_OF_CARDS - 1
Suits == 0 .. NUMBER_OF_SUITS - 1

\* card id = rank * 4 + suit
RankOf(card) == card \div NUMBER_OF_SUITS
SuitOf(card) == card % NUMBER_OF_SUITS

\* the suit counters sit in the top 16 bits of key
SUIT_SHIFT == 48

\* the overflow bit (value 8) of each of the four suit counters
FLUSH_MASK == ShlSmall(34952, SUIT_SHIFT)          \* 0x8888 << SUIT_SHIFT

\* the rank-count contribution of each rank, in the low 32 bits of key; the
\* properties checked below depend on these only through their staying
\* clear of the suit counters
RANK_BASES ==
    <<8192, 32769, 69632, 237568, 593920, 1531909, 3563520,
      4300819, 4685870, 4690024, 4767972, 4780561, 4801683>>

\* the suit counter each suit increments: suit 0 the top nibble of key
SUIT_BASES == <<4096, 256, 16, 1>>

\* keyDelta of a card
CardKey(card) ==
    LET rb == RANK_BASES[RankOf(card) + 1]
    IN  wrapping_add(<<rb % LimbBase, rb \div LimbBase, 0, 0>>,
                     ShlSmall(SUIT_BASES[SuitOf(card) + 1], SUIT_SHIFT))

\* maskBit of a card: one bit per card, grouped four per rank
CardMask(card) ==
    [i \in 1..4 |-> IF i = (card \div LimbBits) + 1 THEN Pow2(card % LimbBits) ELSE 0]

\* CARDS[card] = (keyDelta, maskBit)
CARDS == [card \in Cards |-> [k |-> CardKey(card), m |-> CardMask(card)]]

(***************************************************************************)
(* impl Hand                                                               *)
(***************************************************************************)
\* the bias constant 0x3333 << SUIT_SHIFT
Bias == ShlSmall(13107, SUIT_SHIFT)

\* new() without the bias: every suit counter starts at 0
new_unbiased == [key |-> U64Zero, mask |-> U64Zero]

new == [key |-> Bias, mask |-> U64Zero]

add_card(self, card) ==
    [key  |-> wrapping_add(self.key, CARDS[card].k),
     mask |-> wrapping_add(self.mask, CARDS[card].m)]

\* remove_card that subtracts the key but adds the mask bit, as add_card does
remove_card_adds_mask(self, card) ==
    [key  |-> wrapping_sub(self.key, CARDS[card].k),
     mask |-> wrapping_add(self.mask, CARDS[card].m)]

remove_card(self, card) ==
    [key  |-> wrapping_sub(self.key, CARDS[card].k),
     mask |-> wrapping_sub(self.mask, CARDS[card].m)]

RECURSIVE from_slice_onto(_, _)
from_slice_onto(h, cards) ==
    IF cards = <<>> THEN h
    ELSE from_slice_onto(add_card(h, Head(cards)), Tail(cards))

from_slice(cards) == from_slice_onto(new, cards)

\* the naive sum of two Hands, which carries the bias of both
add_keeps_both_biases(self, rhs_) ==
    [key  |-> wrapping_add(self.key, rhs_.key),
     mask |-> wrapping_add(self.mask, rhs_.mask)]

\* impl Add for Hand: self + rhs
add(self, rhs_) ==
    [key  |-> wrapping_sub(wrapping_add(self.key, rhs_.key), Bias),
     mask |-> wrapping_add(self.mask, rhs_.mask)]

\* impl AddAssign for Hand: the value of self after self += rhs
add_assign(self, rhs_) ==
    LET k1 == wrapping_add(self.key, rhs_.key)
        k2 == wrapping_sub(k1, Bias)
    IN  [key |-> k2, mask |-> wrapping_add(self.mask, rhs_.mask)]

is_empty(self) == self.mask = U64Zero

len(self) == count_ones(self.mask)

get_mask(self) == self.mask

contains(self, card) == BitAnd(self.mask, CARDS[card].m) # U64Zero

(***************************************************************************)
(* Hand::evaluate.  The three lookup tables are data of the assets crate;  *)
(* the result is named by the table and the index the code reads it at.    *)
(***************************************************************************)
\* the number of entries of LOOKUP_FLUSH: one per 13-bit rank mask
LOOKUP_FLUSH_LEN == 8192

\* the flush test taken on mask instead of key
is_flush_of_mask(self) == BitAnd(self.mask, FLUSH_MASK)

\* let is_flush = self.key & FLUSH_MASK
is_flush(self) == BitAnd(self.key, FLUSH_MASK)

\* (self.mask >> (4 * is_flush.leading_zeros())) as u16
flush_key(self) == AsU16(Shr(self.mask, 4 * leading_zeros(is_flush(self))))

\* self.key as u32 as usize
rank_key(self) == AsU32(self.key)

\* the table entry evaluate returns: LOOKUP_FLUSH[flush_key] on the flush path,
\* LOOKUP[rank_key + OFFSETS[rank_key >> OFFSET_SHIFT]] otherwise, the latter
\* named by rank_key, which determines it
evaluate(self) ==
    IF is_flush(self) # U64Zero
    THEN [is_flush |-> is_flush(self), table |-> "LOOKUP_FLUSH",
          index |-> <<flush_key(self)>>]
    ELSE [is_flush |-> is_flush(self), table |-> "LOOKUP",
          index |-> rank_key(self)]

(***************************************************************************)
(* What the cards of a set amount to, computed from the table alone.       *)
(***************************************************************************)
\* x | y on one limb
OrLimb(x, y) ==
    LET RECURSIVE go(_)
        go(i) == IF i = LimbBits THEN 0
                 ELSE (IF LimbBit(x, i) + LimbBit(y, i) > 0 THEN Pow2(i) ELSE 0)
                      + go(i + 1)
    IN  IF x = 0 THEN y ELSE IF y = 0 THEN x ELSE go(0)

\* the bitwise union of the maskBits of the cards of S
RECURSIVE MaskUnion(_)
MaskUnion(S) ==
    IF S = {} THEN U64Zero
    ELSE LET c == CHOOSE x \in S : TRUE
             rest == MaskUnion(S \ {c})
         IN  [i \in 1..4 |-> OrLimb(rest[i], CARDS[c].m[i])]

\* the sum over S of limb i of the keyDeltas, not reduced
RECURSIVE KeyLimbSum(_, _)
KeyLimbSum(S, i) ==
    IF S = {} THEN 0
    ELSE LET c == CHOOSE x \in S : TRUE
         IN  CARDS[c].k[i] + KeyLimbSum(S \ {c}, i)

\* the bias constant plus the sum of the keyDeltas of S, modulo 2^64
KeySum(S) ==
    LET t1 == Bias[1] + KeyLimbSum(S, 1)
        t2 == Bias[2] + KeyLimbSum(S, 2) + (t1 \div LimbBase)
        t3 == Bias[3] + KeyLimbSum(S, 3) + (t2 \div LimbBase)
        t4 == Bias[4] + KeyLimbSum(S, 4) + (t3 \div LimbBase)
    IN  <<t1 % LimbBase, t2 % LimbBase, t3 % LimbBase, t4 % LimbBase>>

\* the cards of S in ascending order
RECURSIVE Ascending(_)
Ascending(S) ==
    IF S = {} THEN <<>>
    ELSE LET c == CHOOSE x \in S : \A y \in S : x <= y
         IN  <<c>> \o Ascending(S \ {c})

\* the cards of S in descending order
RECURSIVE Descending(_)
Descending(S) ==
    IF S = {} THEN <<>>
    ELSE LET c == CHOOSE x \in S : \A y \in S : x >= y
         IN  <<c>> \o Descending(S \ {c})

\* the number of cards of a suit in S
SuitCount(S, suit) == Cardinality({c \in S : SuitOf(c) = suit})

(***************************************************************************)
(* The decks the specifications draw cards from.                           *)
(***************************************************************************)
\* n ranks spread from the deuce (0) to the ace (12), n >= 2
RankPick(n) == {(i * (NUMBER_OF_RANKS - 1)) \div (n - 1) : i \in 0 .. n - 1}

DeckOf(n) == {c \in Cards : RankOf(c) \in RankPick(n)}

\* ranks in the deck of the accumulator specification
AccRanks == 3

AccDeck == DeckOf(AccRanks)

(***************************************************************************)
(* Specification Spec: a Hand under add_card and remove_card.              *)
(***************************************************************************)
OthersIdle ==
    /\ rhs = new /\ rhsCards = {}
    /\ third = new /\ thirdCards = {}
    /\ sum = NoValue /\ ev = NoValue
    /\ input = <<>> /\ parsed = NoValue
    /\ code = 0 /\ category = NoValue
    /\ longSuit = 0

Init ==
    /\ hand = new
    /\ present = {}
    /\ OthersIdle

AddCard(card) ==
    /\ card \notin present
    /\ hand' = add_card(hand, card)
    /\ present' = present \cup {card}
    /\ UNCHANGED <<rhs, rhsCards, third, thirdCards, sum, ev,
                   input, parsed, code, category, longSuit>>

RemoveCard(card) ==
    /\ card \in present
    /\ hand' = remove_card(hand, card)
    /\ present' = present \ {card}
    /\ UNCHANGED <<rhs, rhsCards, third, thirdCards, sum, ev,
                   input, parsed, code, category, longSuit>>

Next ==
    \/ \E card \in AccDeck : AddCard(card)
    \/ \E card \in AccDeck : RemoveCard(card)

Spec == Init /\ [][Next]_vars

\* C2: after any sequence of add_card (of an absent card) and remove_card (of a
\* present card) from Hand::new(), mask is the union of the maskBits of the
\* cards present and key is the bias plus the wrapping sum of their keyDeltas;
\* len() counts the cards present, contains(c) holds exactly for them,
\* is_empty() holds exactly when there is none, the Hand is the one from_slice
\* builds from the card set in any order, and removing a card just added
\* gives the Hand back.
C2_AccumulatorIsCardSet ==
    /\ hand.mask = MaskUnion(present)
    /\ hand.key = KeySum(present)
    /\ len(hand) = Cardinality(present)
    /\ \A c \in Cards : contains(hand, c) <=> c \in present
    /\ is_empty(hand) <=> present = {}
    /\ hand = from_slice(Ascending(present))
    /\ hand = from_slice(Descending(present))
    /\ \A c \in AccDeck \ present : remove_card(add_card(hand, c), c) = hand

\* some cards were added and some removed again, cards are left
C2_Witness ==
    /\ Cardinality(present) >= 3
    /\ \E c \in AccDeck \ present : c < 4
    /\ \E c \in present : RankOf(c) = NUMBER_OF_RANKS - 1

(***************************************************************************)
(* Specification SpecEval: hands of at most 7 cards, built in ascending    *)
(* card order as the enumeration tests build them, then evaluated.         *)
(***************************************************************************)
\* evaluate is documented for 5 to 7 cards
MIN_EVAL_LEN == 5
MAX_EVAL_LEN == 7

\* ranks in the deck of the evaluation specification
EvalRanks == 6

EvalDeck == DeckOf(EvalRanks)

\* for n in (m + 1)..NUMBER_OF_CARDS { let hand = hand.add_card(n); ... }
EnumAddCard(card) ==
    /\ IsNone(ev)
    /\ Cardinality(present) < MAX_EVAL_LEN
    /\ \A c \in present : c < card
    /\ AddCard(card)

\* let rank = hand.evaluate();
Evaluate ==
    /\ IsNone(ev)
    /\ ev' = Some(evaluate(hand))
    /\ UNCHANGED <<hand, present, rhs, rhsCards, third, thirdCards, sum,
                   input, parsed, code, category, longSuit>>

EvalNext ==
    \/ \E card \in EvalDeck : EnumAddCard(card)
    \/ Evaluate

SpecEval == Init /\ [][EvalNext]_vars

\* the suits with five or more cards in S
FlushSuits(S) == {suit \in Suits : SuitCount(S, suit) >= 5}

\* the overflow bit (value 8) of a suit's counter, as a u64
OverflowBit(suit) == ShlSmall(8 * SUIT_BASES[suit + 1], SUIT_SHIFT)

\* C8: for a hand of at most 7 distinct cards, key & FLUSH_MASK is nonzero
\* exactly when some suit holds 5 or more cards, it is then the overflow bit
\* of that one suit, and evaluate takes the flush path exactly then.
C8_FlushTestIffFlushSuit ==
    IsSome(ev) =>
        /\ (ev.value.is_flush # U64Zero) <=> (FlushSuits(present) # {})
        /\ ev.value.is_flush # U64Zero =>
               \E suit \in Suits :
                   /\ FlushSuits(present) = {suit}
                   /\ ev.value.is_flush = OverflowBit(suit)
        /\ (ev.value.table = "LOOKUP_FLUSH") <=> (FlushSuits(present) # {})

\* a hand of 7 cards, 6 of one suit, was evaluated and took the flush path
C8_Witness ==
    /\ IsSome(ev)
    /\ Cardinality(present) = MAX_EVAL_LEN
    /\ \E suit \in Suits : SuitCount(present, suit) = 6
    /\ ev.value.table = "LOOKUP_FLUSH"

\* the 13-bit rank-presence mask of a suit in S: bit r for rank r
RECURSIVE RankMask(_, _)
RankMask(S, suit) ==
    IF S = {} THEN 0
    ELSE LET c == CHOOSE x \in S : TRUE
         IN  (IF SuitOf(c) = suit THEN Pow2(RankOf(c)) ELSE 0)
             + RankMask(S \ {c}, suit)

\* C9: on the flush path, for a hand of 5 to 7 distinct cards with a suit of 5
\* or more cards, flush_key is the 13-bit rank-presence mask of the flush
\* suit, hence below 2^13 and inside LOOKUP_FLUSH.
C9_FlushKeyIsRankMask ==
    (/\ IsSome(ev)
     /\ Cardinality(present) >= MIN_EVAL_LEN
     /\ Cardinality(present) <= MAX_EVAL_LEN
     /\ FlushSuits(present) # {}) =>
        /\ ev.value.table = "LOOKUP_FLUSH"
        /\ \A suit \in FlushSuits(present) :
               ev.value.index = <<RankMask(present, suit)>>
        /\ ev.value.index[1] < LOOKUP_FLUSH_LEN

(***************************************************************************)
(* Specification SpecSuit: hands of any size over one whole suit and the   *)
(* lowest ranks of the others, built in ascending card order.              *)
(***************************************************************************)
\* ranks, from the deuce up, dealt in the suits other than longSuit
SideRanks == 1

SuitDeck == {c \in Cards : SuitOf(c) = longSuit \/ RankOf(c) < SideRanks}

SuitInit ==
    /\ hand = new
    /\ present = {}
    /\ rhs = new /\ rhsCards = {}
    /\ third = new /\ thirdCards = {}
    /\ sum = NoValue /\ ev = NoValue
    /\ input = <<>> /\ parsed = NoValue
    /\ code = 0 /\ category = NoValue
    /\ longSuit \in Suits

SuitAddCard(card) ==
    /\ \A c \in present : c < card
    /\ AddCard(card)

SuitNext == \E card \in SuitDeck : SuitAddCard(card)

SpecSuit == SuitInit /\ [][SuitNext]_vars

\* the 4-bit counter field of a suit in key
SuitCounter(key, suit) == (key[4] \div SUIT_BASES[suit + 1]) % 16

CountersTrackSuits ==
    \A suit \in Suits :
        /\ SuitCounter(hand.key, suit) = (3 + SuitCount(present, suit)) % 16
        /\ SuitCount(present, suit) >= 5 => SuitCounter(hand.key, suit) >= 8

\* C10 as stated: for a hand built by add_card of any number of distinct
\* cards, each suit's counter is 3 + n (mod 16) for its n cards, with the top
\* bit (value 8) set whenever n >= 5.
C10_CountersAnyHand == CountersTrackSuits

\* C10 as amended: the same for every hand in which no suit has all thirteen
\* of its cards.
C10_CountersBelowFullSuit ==
    (\A suit \in Suits : SuitCount(present, suit) < NUMBER_OF_RANKS)
        => CountersTrackSuits

\* twelve cards of one suit, and a card of another suit, are in the hand
C10_Witness ==
    /\ SuitCount(present, longSuit) = NUMBER_OF_RANKS - 1
    /\ \E suit \in Suits \ {longSuit} : SuitCount(present, suit) = 1

(***************************************************************************)
(* Specification SpecMerge: three Hands built from disjoint cards, merged  *)
(* with + and +=.                                                          *)
(***************************************************************************)
\* the cards of the merge specification, in the order the bound admits them:
\* five of suit 1 first, then cards of the other suits
MergeOrder == <<1, 9, 17, 25, 49, 50, 0, 51, 14, 36>>

\* how many cards of MergeOrder are dealt
MergeCards == 6

MergeDeck == {MergeOrder[i] : i \in 1 .. MergeCards}

Dealt == present \cup rhsCards \cup thirdCards

HandAddCard(card) ==
    /\ IsNone(sum)
    /\ card \notin Dealt
    /\ AddCard(card)

RhsAddCard(card) ==
    /\ IsNone(sum)
    /\ card \notin Dealt
    /\ rhs' = add_card(rhs, card)
    /\ rhsCards' = rhsCards \cup {card}
    /\ UNCHANGED <<hand, present, third, thirdCards, sum, ev,
                   input, parsed, code, category, longSuit>>

ThirdAddCard(card) ==
    /\ IsNone(sum)
    /\ card \notin Dealt
    /\ third' = add_card(third, card)
    /\ thirdCards' = thirdCards \cup {card}
    /\ UNCHANGED <<hand, present, rhs, rhsCards, sum, ev,
                   input, parsed, code, category, longSuit>>

\* let s = hand + rhs, for disjoint hand and rhs
Merge ==
    /\ IsNone(sum)
    /\ present \cap rhsCards = {}
    /\ sum' = Some(add(hand, rhs))
    /\ UNCHANGED <<hand, present, rhs, rhsCards, third, thirdCards, ev,
                   input, parsed, code, category, longSuit>>

\* hand += rhs, for disjoint hand and rhs
MergeAssignRhs ==
    /\ IsNone(sum)
    /\ rhsCards # {}
    /\ present \cap rhsCards = {}
    /\ hand' = add_assign(hand, rhs)
    /\ present' = present \cup rhsCards
    /\ UNCHANGED <<rhs, rhsCards, third, thirdCards, sum, ev,
                   input, parsed, code, category, longSuit>>

\* hand += third, for disjoint hand and third
MergeAssignThird ==
    /\ IsNone(sum)
    /\ thirdCards # {}
    /\ present \cap thirdCards = {}
    /\ hand' = add_assign(hand, third)
    /\ present' = present \cup thirdCards
    /\ UNCHANGED <<rhs, rhsCards, third, thirdCards, sum, ev,
                   input, parsed, code, category, longSuit>>

MergeNext ==
    \/ \E card \in MergeDeck : HandAddCard(card)
    \/ \E card \in MergeDeck : RhsAddCard(card)
    \/ \E card \in MergeDeck : ThirdAddCard(card)
    \/ Merge
    \/ MergeAssignRhs
    \/ MergeAssignThird

SpecMerge == Init /\ [][MergeNext]_vars

\* the Hand from_slice builds from the cards of S, with its one bias
HandOf(S) == [key |-> KeySum(S), mask |-> MaskUnion(S)]

\* C3: for hands built from disjoint card sets the merge (+ and +=) is the
\* Hand from_slice builds from the union, with one copy of the bias; merge is
\* commutative and associative over pairwise-disjoint hands, Hand::new() is
\* its identity, and evaluate() of the merge is evaluate() of the hand built
\* from all the cards.
C3_MergeIsUnion ==
    /\ hand = HandOf(present)
    /\ hand = from_slice(Ascending(present))
    /\ add(hand, new) = hand /\ add(new, hand) = hand
    /\ add_assign(hand, new) = hand
    /\ present \cap rhsCards = {} =>
           /\ add(hand, rhs) = HandOf(present \cup rhsCards)
           /\ add(hand, rhs) = from_slice(Ascending(present \cup rhsCards))
           /\ add_assign(hand, rhs) = add(hand, rhs)
           /\ add(hand, rhs) = add(rhs, hand)
           /\ evaluate(add(hand, rhs))
                  = evaluate(from_slice(Descending(present \cup rhsCards)))
    /\ (/\ present \cap rhsCards = {}
        /\ present \cap thirdCards = {}
        /\ rhsCards \cap thirdCards = {}) =>
           add(add(hand, rhs), third) = add(hand, add(rhs, third))
    /\ IsSome(sum) => sum.value = HandOf(present \cup rhsCards)

\* two non-empty disjoint hands were merged with +, after a += of a third,
\* into a hand with a flush suit
C3_Witness ==
    /\ IsSome(sum)
    /\ rhsCards # {} /\ thirdCards # {} /\ thirdCards \subseteq present
    /\ present \cap rhsCards = {}
    /\ FlushSuits(present \cup rhsCards) # {}
    /\ evaluate(sum.value).table = "LOOKUP_FLUSH"

(***************************************************************************)
(* get_hand_category                                                       *)
(***************************************************************************)
\* enum HandCategory, each variant at its discriminant + 1
HandCategory ==
    <<"HighCard", "OnePair", "TwoPair", "ThreeOfAKind", "Straight",
      "Flush", "FullHouse", "FourOfAKind", "StraightFlush">>

\* `category as usize`
Discriminant(cat) == (CHOOSE i \in 1 .. Len(HandCategory) : HandCategory[i] = cat) - 1

\* the width of a rank code and of its index part
RANK_CODE_BITS == 16
CATEGORY_SHIFT == 12

RankCodes == 0 .. Pow2(RANK_CODE_BITS) - 1

\* unreachable!() panics
Panic == "panic"

\* get_hand_category with a silent default in place of unreachable!()
get_hand_category_defaulting(hand_rank) ==
    LET top == hand_rank \div Pow2(CATEGORY_SHIFT)
    IN  IF top >= 1 /\ top <= 8 THEN HandCategory[top + 1] ELSE "HighCard"

get_hand_category(hand_rank) ==
    LET top == hand_rank \div Pow2(CATEGORY_SHIFT)
    IN  CASE top = 0 -> "HighCard"
          [] top = 1 -> "OnePair"
          [] top = 2 -> "TwoPair"
          [] top = 3 -> "ThreeOfAKind"
          [] top = 4 -> "Straight"
          [] top = 5 -> "Flush"
          [] top = 6 -> "FullHouse"
          [] top = 7 -> "FourOfAKind"
          [] top = 8 -> "StraightFlush"
          [] OTHER -> Panic

(***************************************************************************)
(* Specification SpecCategory: every 16-bit rank code, categorised.        *)
(***************************************************************************)
CategoryInit ==
    /\ hand = new /\ present = {}
    /\ rhs = new /\ rhsCards = {}
    /\ third = new /\ thirdCards = {}
    /\ sum = NoValue /\ ev = NoValue
    /\ input = <<>> /\ parsed = NoValue
    /\ code \in RankCodes /\ category = NoValue
    /\ longSuit = 0

Categorize ==
    /\ IsNone(category)
    /\ category' = Some(get_hand_category(code))
    /\ UNCHANGED <<hand, present, rhs, rhsCards, third, thirdCards, sum, ev,
                   input, parsed, code, longSuit>>

CategoryNext == Categorize

SpecCategory == CategoryInit /\ [][CategoryNext]_vars

\* the lowest and the highest code of each of the nine categories
CategoryEdges ==
    {n * Pow2(CATEGORY_SHIFT) + i :
        n \in 0 .. Len(HandCategory) - 1, i \in {0, Pow2(CATEGORY_SHIFT) - 1}}

\* C7: for a 16-bit rank code r with r >> 12 in 0..8, get_hand_category(r) is
\* the category numbered r >> 12, so a lower category implies a smaller code;
\* with r >> 12 above 8 the call panics and returns no category.
C7_CategoryIsTopNibble ==
    IsSome(category) =>
        LET top == code \div 4096
        IN  /\ top <= 8 =>
                   /\ category.value # Panic
                   /\ Discriminant(category.value) = top
                   /\ category.value = HandCategory[top + 1]
                   /\ \A r \in CategoryEdges :
                          /\ Discriminant(category.value)
                                 < Discriminant(get_hand_category(r)) => code < r
                          /\ Discriminant(get_hand_category(r))
                                 < Discriminant(category.value) => r < code
            /\ top > 8 => category.value = Panic

\* a Flush code and a code above every category were categorised
C7_Witness ==
    /\ IsSome(category)
    /\ code = 5 * 4096 + 77
    /\ category.value = "Flush"

C7_WitnessPanic ==
    /\ IsSome(category)
    /\ code >= 9 * 4096
    /\ category.value = Panic

(***************************************************************************)
(* impl FromStr for Hand.  A &str is the sequence of its chars.            *)
(***************************************************************************)
LowerLetters ==
    <<"a", "b", "c", "d", "e", "f", "g", "h", "i", "j", "k", "l", "m",
      "n", "o", "p", "q", "r", "s", "t", "u", "v", "w", "x", "y", "z">>

UpperLetters ==
    <<"A", "B", "C", "D", "E", "F", "G", "H", "I", "J", "K", "L", "M",
      "N", "O", "P", "Q", "R", "S", "T", "U", "V", "W", "X", "Y", "Z">>

\* the position of ch in letters, 0 when it is not among them
LetterIndex(letters, ch) ==
    IF \E i \in 1 .. Len(letters) : letters[i] = ch
    THEN CHOOSE i \in 1 .. Len(letters) : letters[i] = ch
    ELSE 0

\* char::to_ascii_uppercase: a-z to A-Z, every other char unchanged
to_ascii_uppercase(ch) ==
    IF LetterIndex(LowerLetters, ch) # 0
    THEN UpperLetters[LetterIndex(LowerLetters, ch)] ELSE ch

\* char::to_ascii_lowercase: A-Z to a-z, every other char unchanged
to_ascii_lowercase(ch) ==
    IF LetterIndex(UpperLetters, ch) # 0
    THEN LowerLetters[LetterIndex(UpperLetters, ch)] ELSE ch

\* Result::Ok(v) and Result::Err(m)
Ok(v) == [tag |-> "Ok", value |-> v]
Err(m) == [tag |-> "Err", msg |-> m]

\* match rank_char.to_ascii_uppercase() { '2' => Ok(0), ..., ch => Err(..) }
rank_id(rank_char) ==
    LET ch == to_ascii_uppercase(rank_char)
    IN  CASE ch = "2" -> Ok(0)
          [] ch = "3" -> Ok(1)
          [] ch = "4" -> Ok(2)
          [] ch = "5" -> Ok(3)
          [] ch = "6" -> Ok(4)
          [] ch = "7" -> Ok(5)
          [] ch = "8" -> Ok(6)
          [] ch = "9" -> Ok(7)
          [] ch = "T" -> Ok(8)
          [] ch = "J" -> Ok(9)
          [] ch = "Q" -> Ok(10)
          [] ch = "K" -> Ok(11)
          [] ch = "A" -> Ok(12)
          [] OTHER ->
               Err("parse failed: expected rank character, but got '" \o ch \o "'")

\* the suit match with the suits in the order c, d, h, s
suit_id_cdhs(suit_char) ==
    LET ch == to_ascii_lowercase(suit_char)
    IN  CASE ch = "c" -> Ok(0)
          [] ch = "d" -> Ok(1)
          [] ch = "h" -> Ok(2)
          [] ch = "s" -> Ok(3)
          [] OTHER ->
               Err("parse failed: expected suit character, but got '" \o ch \o "'")

\* match suit_char.to_ascii_lowercase() { 's' => Ok(0), ..., ch => Err(..) }
suit_id(suit_char) ==
    LET ch == to_ascii_lowercase(suit_char)
    IN  CASE ch = "s" -> Ok(0)
          [] ch = "h" -> Ok(1)
          [] ch = "c" -> Ok(2)
          [] ch = "d" -> Ok(3)
          [] OTHER ->
               Err("parse failed: expected suit character, but got '" \o ch \o "'")

\* the loop of from_str: `hand` so far, `chars` the rest of the iterator
RECURSIVE from_str_loop(_, _)
from_str_loop(h, chars) ==
    IF chars = <<>> THEN Ok(h)
    ELSE IF Len(chars) = 1
    THEN Err("parse failed: expected suit character, but got EOF")
    ELSE LET r == rank_id(chars[1])
             s == suit_id(chars[2])
         IN  IF r.tag = "Err" THEN Err(r.msg)
             ELSE IF s.tag = "Err" THEN Err(s.msg)
             ELSE from_str_loop(add_card(h, r.value * 4 + s.value),
                                SubSeq(chars, 3, Len(chars)))

from_str(hand_str) == from_str_loop(new, hand_str)

(***************************************************************************)
(* Specification SpecParse: texts drawn from the valid tokens and the text *)
(* of test_parser, extended a character at a time, then parsed.            *)
(***************************************************************************)
\* the rank and suit characters, at their ids + 1
RankCharsUpper == <<"2", "3", "4", "5", "6", "7", "8", "9", "T", "J", "Q", "K", "A">>
RankCharsLower == <<"2", "3", "4", "5", "6", "7", "8", "9", "t", "j", "q", "k", "a">>
SuitCharsLower == <<"s", "h", "c", "d">>
SuitCharsUpper == <<"S", "H", "C", "D">>

RankCharSet == {RankCharsUpper[i] : i \in 1..13} \cup {RankCharsLower[i] : i \in 1..13}
SuitCharSet == {SuitCharsLower[i] : i \in 1..4} \cup {SuitCharsUpper[i] : i \in 1..4}

\* the suits in the order of the documented card numbering: card 0 the deuce
\* of clubs, card 51 the ace of spades, and in test_parser 2h = 2, 3d = 5
DocSuitCharsLower == <<"c", "d", "h", "s">>
DocSuitCharsUpper == <<"C", "D", "H", "S">>

\* let hand_from_str = "2h2s3d3s4s5d6d".parse::<Hand>();
TestParserText ==
    <<"2", "h", "2", "s", "3", "d", "3", "s", "4", "s", "5", "d", "6", "d">>

\* let cards = [2, 3, 5, 7, 11, 13, 17];
TestParserCards == <<2, 3, 5, 7, 11, 13, 17>>

ValidTokens == {<<r, s>> : r \in RankCharSet, s \in SuitCharSet}

InitialTexts == {<<>>, TestParserText} \cup ValidTokens

\* the characters typed after the initial text: ranks and suits in both
\* cases, and characters that are neither, in both cases
ParseAlphabet == {"A", "t", "9", "s", "D", "x", "X", "1"}

\* the longest text typing extends to
MaxTextLen == 4

ParseInit ==
    /\ hand = new /\ present = {}
    /\ rhs = new /\ rhsCards = {}
    /\ third = new /\ thirdCards = {}
    /\ sum = NoValue /\ ev = NoValue
    /\ input \in InitialTexts /\ parsed = NoValue
    /\ code = 0 /\ category = NoValue
    /\ longSuit = 0

Type(ch) ==
    /\ IsNone(parsed)
    /\ Len(input) < MaxTextLen
    /\ input' = Append(input, ch)
    /\ UNCHANGED <<hand, present, rhs, rhsCards, third, thirdCards, sum, ev,
                   parsed, code, category, longSuit>>

\* hand_str.parse::<Hand>()
Parse ==
    /\ IsNone(parsed)
    /\ parsed' = Some(from_str(input))
    /\ UNCHANGED <<hand, present, rhs, rhsCards, third, thirdCards, sum, ev,
                   input, code, category, longSuit>>

ParseNext ==
    \/ \E ch \in ParseAlphabet : Type(ch)
    \/ Parse

SpecParse == ParseInit /\ [][ParseNext]_vars

\* a concatenation of zero or more <rank><suit> tokens
WellFormed(text) ==
    /\ Len(text) % 2 = 0
    /\ \A i \in 1 .. Len(text) :
           IF i % 2 = 1 THEN text[i] \in RankCharSet ELSE text[i] \in SuitCharSet

\* the id of a character in a table of characters given in both cases
CharId(upper, lower, ch) ==
    (CHOOSE i \in 1 .. Len(upper) : ch = upper[i] \/ ch = lower[i]) - 1

\* rankId * 4 + suitId of each token, ranks 2..A as 0..12, suits s,h,c,d as 0..3
TokenIds(text) ==
    [i \in 1 .. Len(text) \div 2 |->
        CharId(RankCharsUpper, RankCharsLower, text[2 * i - 1]) * 4
        + CharId(SuitCharsUpper, SuitCharsLower, text[2 * i])]

\* the ids of the tokens under the documented card numbering
DocumentedIds(text) ==
    [i \in 1 .. Len(text) \div 2 |->
        CharId(RankCharsUpper, RankCharsLower, text[2 * i - 1]) * 4
        + CharId(DocSuitCharsUpper, DocSuitCharsLower, text[2 * i])]

C5_ParseAgreesWithDocumentedIds ==
    (IsSome(parsed) /\ WellFormed(input)) =>
        /\ parsed.value = Ok(from_slice(DocumentedIds(input)))
        /\ input = TestParserText => parsed.value = Ok(from_slice(TestParserCards))

\* the error the claim gives for a text that is not well formed: that of its
\* first malformed token, the offending character as it appears in the text
RECURSIVE VerbatimError(_)
VerbatimError(text) ==
    IF Len(text) = 1
    THEN "parse failed: expected suit character, but got EOF"
    ELSE IF text[1] \notin RankCharSet
    THEN "parse failed: expected rank character, but got '" \o text[1] \o "'"
    ELSE IF text[2] \notin SuitCharSet
    THEN "parse failed: expected suit character, but got '" \o text[2] \o "'"
    ELSE VerbatimError(SubSeq(text, 3, Len(text)))

\* C6: parsing fails at the first malformed token, left to right: EOF after a
\* lone last character, else the unrecognized rank or suit character reported
\* exactly as it appears in the input; no Hand is returned.
C6_ErrorsReportVerbatim ==
    (IsSome(parsed) /\ ~WellFormed(input)) =>
        parsed.value = Err(VerbatimError(input))

\* what the code reports instead: the rank character upper-cased, the suit
\* character lower-cased
RECURSIVE FoldedError(_)
FoldedError(text) ==
    IF Len(text) = 1
    THEN "parse failed: expected suit character, but got EOF"
    ELSE IF text[1] \notin RankCharSet
    THEN "parse failed: expected rank character, but got '"
             \o to_ascii_uppercase(text[1]) \o "'"
    ELSE IF text[2] \notin SuitCharSet
    THEN "parse failed: expected suit character, but got '"
             \o to_ascii_lowercase(text[2]) \o "'"
    ELSE FoldedError(SubSeq(text, 3, Len(text)))

ErrorsReportFoldedChar ==
    (IsSome(parsed) /\ ~WellFormed(input)) =>
        parsed.value = Err(FoldedError(input))

====
